---------------------------- MODULE Spec2Model ----------------------------
(***************************************************************************)
(* D3Log DistributingAccumulator                                           *)
(* (rust/template/distributed_datalog/src/accumulate/accumulator.rs).      *)
(*                                                                         *)
(* The accumulator owns an AccumulatingObserver (the accumulated `data`)   *)
(* and shares a TxnDistributor (the registry `observers`) behind a mutex   *)
(* with every UpdatesObservable handed out by create_observable.           *)
(*                                                                         *)
(* Every method of the accumulator takes `&mut self`, so its calls are     *)
(* sequential among themselves.  A bare observable holds only the shared   *)
(* distributor and may be used from another thread: its subscribe and      *)
(* unsubscribe are critical sections on the distributor mutex and can run  *)
(* whenever the accumulator does not hold that mutex.  The only point      *)
(* inside an accumulator call at which the mutex is not held while work    *)
(* is pending is in on_updates, between the application of the batch to    *)
(* `data` and the forwarding of the batch to the distributor; on_updates   *)
(* is therefore modelled by two steps.  subscribe and on_completed hold    *)
(* the mutex from their first statement to their return and are atomic.    *)
(*                                                                         *)
(* AccumulatingObserver and TxnDistributor are not part of accumulator.rs. *)
(* They are modelled from their documented contract.  One point of that    *)
(* contract is fixed by the tests of accumulator.rs: on_completed of the   *)
(* accumulator returns Ok(()) and every mock has counted exactly one       *)
(* on_completed (multiple_subscribe_direct_distributor,                    *)
(* transparent_transactions_proxy).  The distributor's on_completed is     *)
(* called directly while the guard is held, so the AccumulatingObserver's  *)
(* on_completed, called last with the guard still held, clears `data`      *)
(* and returns Ok(()) without delivering a second Complete through the     *)
(* (non-reentrant) mutex.                                                  *)
(***************************************************************************)
EXTENDS Naturals, Sequences, FiniteSets

\* Number of calls in a run (create_observable apart): those of the accumulator
\* and those made through a bare observable, when the upstream caller keeps to
\* the protocol (on_start on_updates* on_commit)* [on_completed].
MaxCalls == 5

\* The same, when subscribe and on_completed are followed through the steps
\* at which they take and release the distributor lock.
MaxLiveCalls == 4

\* The same, when the upstream caller makes its calls in any order.
MaxAnyOrderCalls == 4

\* The downstream observers (the mocks of the tests).
Sinks == {"mock1", "mock2"}

\* Relation ids and the values a relation may hold.
RelIds == {1, 2}

Values == {1, 2}

\* Update::Insert { relid, v } and Update::DeleteValue { relid, v }.
Insert(relid, v) == [op |-> "Insert", relid |-> relid, v |-> v]

DeleteValue(relid, v) == [op |-> "DeleteValue", relid |-> relid, v |-> v]

\* Update batches handed to on_updates (scaled-down get_usize_updates_*).
Batches ==
    { << >>,
      << Insert(1, 1) >>,
      << Insert(1, 2), Insert(2, 1) >>,
      << DeleteValue(1, 1) >>,
      << Insert(2, 1), DeleteValue(2, 1) >> }

\* The calls of the Observer trait as a sink records them.
Start == [call |-> "on_start", updates |-> << >>]

Updates(b) == [call |-> "on_updates", updates |-> b]

Commit == [call |-> "on_commit", updates |-> << >>]

Completed == [call |-> "on_completed", updates |-> << >>]

\* Results: Ok(..), Err(the failing sink's error), Some(sink), None.
Ok == [tag |-> "Ok", of |-> "none"]

Err(s) == [tag |-> "Err", of |-> s]

Some(s) == [tag |-> "Some", of |-> s]

None == [tag |-> "None", of |-> "none"]

\* No batch is between its application and its forwarding: a value that is no
\* batch, of the type of the batches.
NoBatch == << [op |-> "none", relid |-> 0, v |-> 0] >>

VARIABLES
    data,        \* AccumulatingObserver: HashMap<RelId, HashSet<V>>
    observers,   \* TxnDistributor: registered sinks, in registration order
    nextHandle,  \* TxnDistributor: next subscription handle
    log,         \* per sink: the calls it has received
    faulty,      \* the sinks whose handlers return Err
    pending,     \* on_updates: batch applied to data, not yet forwarded
    ret,         \* result of the last accumulator call
    protocol,    \* whether the upstream caller keeps to the protocol
    up,          \* protocol position of the upstream caller
    joined,      \* sinks registered during the transaction that is open
    opsSeen,     \* every update passed to on_updates so far, in order
    cleared,     \* length of opsSeen at the last on_completed
    mode,        \* per sink: how it was last registered
    seenAt,      \* per sink: length of opsSeen when it was last registered
    snapAt,      \* per sink: the accumulated data when it was last registered
    mark,        \* per sink: length of its log when its last registration began
    observables, \* whether a bare observable has been created (0 or 1)
    issued,      \* the handles returned by the subscriptions so far
    lock,        \* the distributor mutex: "free", or the thread that holds it
    pc,          \* the accumulator's thread: the call it is in, and its sink
    bare,        \* the bare observable's thread: the call it is in, and its sink
    last,        \* the call that made the last step
    nCalls       \* number of calls made

vars == <<data, observers, nextHandle, log, faulty, pending, ret, protocol, up, joined,
          opsSeen, cleared, mode, seenAt, snapAt, mark, observables, issued,
          lock, pc, bare, last, nCalls>>

--------------------------------------------------------------------------
(* DeltaStore: the accumulated data *)

EmptyData == [r \in RelIds |-> {}]

\* One update applied to the accumulated data.
Apply(d, u) ==
    IF u.op = "Insert"
    THEN [d EXCEPT ![u.relid] = @ \cup {u.v}]
    ELSE [d EXCEPT ![u.relid] = @ \ {u.v}]

RECURSIVE ApplyAll(_, _)
ApplyAll(d, b) ==
    IF b = << >> THEN d ELSE ApplyAll(Apply(d, Head(b)), Tail(b))

\* get_current_state
GetCurrentState == data

Pairs(d) == {p \in RelIds \X Values : p[2] \in d[p[1]]}

\* The orders in which into_iter().flat_map(..) may enumerate a state: the
\* relations in any order, and the values of one relation, in any order, together.
FlatOrders(d) ==
    LET n == Cardinality(Pairs(d))
    IN  {q \in [1..n -> Pairs(d)] :
            /\ \A i, j \in 1..n : q[i] = q[j] => i = j
            /\ \A i, j, k \in 1..n :
                  (i < j /\ j < k /\ q[i][1] = q[k][1]) => q[j][1] = q[i][1]}

\* init_updates of subscribe, for one enumeration order.
InitUpdates(q) == [i \in 1..Len(q) |-> Insert(q[i][1], q[i][2])]

\* delete_updates of on_completed, for one enumeration order.
DeleteUpdates(q) == [i \in 1..Len(q) |-> DeleteValue(q[i][1], q[i][2])]

--------------------------------------------------------------------------
(* TxnDistributor *)

Registered == {observers[i].sink : i \in 1..Len(observers)}

Handles == {observers[i].handle : i \in 1..Len(observers)}

\* The calls cs delivered to every registered sink.
Deliver(lg, cs) ==
    [s \in Sinks |-> IF s \in Registered THEN lg[s] \o cs ELSE lg[s]]

\* The result of a forwarded call: the error of the first failing sink in
\* registration order, Ok when none fails.
Forwarded ==
    LET bad == {i \in 1..Len(observers) : observers[i].sink \in faulty}
    IN  IF bad = {} THEN Ok
        ELSE Err(observers[CHOOSE i \in bad : \A j \in bad : i <= j].sink)

\* TxnDistributor::subscribe
Register(s) == Append(observers, [handle |-> nextHandle, sink |-> s])

\* TxnDistributor::unsubscribe
Remove(h) == SelectSeq(observers, LAMBDA e : e.handle # h)

--------------------------------------------------------------------------
\* A thread that is in no call of subscribe or on_completed.
NotInCall == [at |-> "idle", sink |-> "none"]

Construction ==
    /\ data = EmptyData
    /\ observers = << >>
    /\ nextHandle = 0
    /\ log = [s \in Sinks |-> << >>]
    /\ faulty \in SUBSET Sinks
    /\ pending = NoBatch
    /\ ret = Ok
    /\ up = "idle"
    /\ joined = {}
    /\ opsSeen = << >>
    /\ cleared = 0
    /\ mode = [s \in Sinks |-> "none"]
    /\ seenAt = [s \in Sinks |-> 0]
    /\ snapAt = [s \in Sinks |-> EmptyData]
    /\ mark = [s \in Sinks |-> 0]
    /\ observables = 0
    /\ issued = {}
    /\ lock = "free"
    /\ pc = NotInCall
    /\ bare = NotInCall
    /\ last = [op |-> "new", sink |-> "none", handle |-> 0]
    /\ nCalls = 0

\* The upstream caller keeps to the protocol.
Init == Construction /\ protocol = TRUE

\* The upstream caller makes its calls in any order.
InitAnyOrder == Construction /\ protocol = FALSE

\* The upstream protocol: (on_start on_updates* on_commit)* [on_completed].
UpNext(c) ==
    CASE up = "idle" /\ c = "on_start" -> "open"
      [] up = "open" /\ c = "on_updates" -> "open"
      [] up = "open" /\ c = "on_commit" -> "idle"
      [] up = "idle" /\ c = "on_completed" -> "done"
      [] OTHER -> "bad"

\* A call is made: its name, the sink it is given, the handle it is given or returns.
CalledWith(op, s, h) ==
    /\ last' = [op |-> op, sink |-> s, handle |-> h]
    /\ nCalls' = nCalls + 1

Called(op, s) == CalledWith(op, s, 0)

Budget == nCalls < (IF protocol THEN MaxCalls ELSE MaxAnyOrderCalls)

\* The accumulator is not inside a call.
Idle == pending = NoBatch /\ Budget

\* The upstream caller may make call c now.
Upstream(c) ==
    /\ protocol => UpNext(c) # "bad"
    /\ up' = UpNext(c)

--------------------------------------------------------------------------
(* Accumulator: create_observable, subscribe, unsubscribe *)

\* create_observable hands out the shared distributor; it is not counted in nCalls.
CreateObservable ==
    /\ pending = NoBatch
    /\ observables' = 1
    /\ last' = [op |-> "create_observable", sink |-> "none", handle |-> 0]
    /\ UNCHANGED <<lock, pc, bare, issued, data, observers, nextHandle, log, faulty, pending, ret, protocol, up,
                   joined, opsSeen, cleared, mode, seenAt, snapAt, mark, nCalls>>

\* Mutant of CatchUp: the catch-up transaction is left uncommitted.
CatchUpWithoutCommit(q) ==
    IF q = << >> THEN << >>
    ELSE <<Start, Updates(InitUpdates(q))>>

\* Mutant of CatchUp: the catch-up transaction is sent whether init_updates is
\* empty or not.
CatchUpUnconditional(q) == <<Start, Updates(InitUpdates(q)), Commit>>

\* The transaction subscribe sends to the new observer: nothing when
\* init_updates is empty.
CatchUp(q) ==
    IF q = << >> THEN << >>
    ELSE <<Start, Updates(InitUpdates(q)), Commit>>

\* The handle the distributor's subscribe returns: that of the entry it added.
Returned == observers'[Len(observers')].handle

\* Mutant of Registration: the distributor gives out the smallest handle that
\* is not registered, so the handle of a removed subscription is given again.
RegistrationReusesHandle(s, m) ==
    /\ observers' =
          Append(observers,
                 [handle |-> CHOOSE h \in 0..nextHandle :
                                /\ h \notin Handles
                                /\ \A g \in 0..nextHandle : g \notin Handles => h <= g,
                  sink |-> s])
    /\ nextHandle' = nextHandle + 1
    /\ mode' = [mode EXCEPT ![s] = m]
    /\ seenAt' = [seenAt EXCEPT ![s] = Len(opsSeen)]
    /\ snapAt' = [snapAt EXCEPT ![s] = data]
    /\ mark' = [mark EXCEPT ![s] = Len(log[s])]
    /\ joined' = IF up = "open" THEN joined \cup {s} ELSE joined
    /\ issued' = issued \cup {Returned}

Registration(s, m) ==
    /\ observers' = Register(s)
    /\ nextHandle' = nextHandle + 1
    /\ mode' = [mode EXCEPT ![s] = m]
    /\ seenAt' = [seenAt EXCEPT ![s] = Len(opsSeen)]
    /\ snapAt' = [snapAt EXCEPT ![s] = data]
    /\ mark' = [mark EXCEPT ![s] = Len(log[s])]
    /\ joined' = IF up = "open" THEN joined \cup {s} ELSE joined
    /\ issued' = issued \cup {Returned}

\* Mutant of Subscribe: subscribe runs while an on_updates has applied its
\* batch and has not forwarded it yet.
SubscribeDuringUpdates(s) ==
    /\ Budget
    /\ s \notin Registered
    /\ \E q \in FlatOrders(GetCurrentState) :
          log' = [log EXCEPT ![s] = @ \o CatchUp(q)]
    /\ Registration(s, "subscribe")
    /\ ret' = Ok
    /\ CalledWith("subscribe", s, Returned)
    /\ UNCHANGED <<lock, pc, bare, data, faulty, protocol, pending, up, opsSeen, cleared,
                   observables>>

\* Mutant of Subscribe: the first error of the catch-up is returned with the
\* observer, which is not registered.
SubscribeStopsAtError(s) ==
    /\ Idle
    /\ s \notin Registered
    /\ IF s \in faulty /\ Pairs(GetCurrentState) # {}
       THEN /\ log' = [log EXCEPT ![s] = @ \o <<Start>>]
            /\ ret' = Err(s)
            /\ Called("subscribe", s)
            /\ UNCHANGED <<observers, nextHandle, mode, seenAt, snapAt, mark,
                           joined, issued>>
       ELSE /\ \E q \in FlatOrders(GetCurrentState) :
                  log' = [log EXCEPT ![s] = @ \o CatchUp(q)]
            /\ Registration(s, "subscribe")
            /\ ret' = Ok
            /\ CalledWith("subscribe", s, Returned)
    /\ UNCHANGED <<lock, pc, bare, data, faulty, protocol, pending, up, opsSeen, cleared, observables>>

\* Mutant of Subscribe: the catch-up transaction also goes through the
\* distributor, to the observers registered already.
SubscribeBroadcastsCatchUp(s) ==
    /\ Idle
    /\ s \notin Registered
    /\ \E q \in FlatOrders(GetCurrentState) :
          log' = [Deliver(log, CatchUp(q)) EXCEPT ![s] = @ \o CatchUp(q)]
    /\ Registration(s, "subscribe")
    /\ ret' = Ok
    /\ CalledWith("subscribe", s, Returned)
    /\ UNCHANGED <<lock, pc, bare, data, faulty, protocol, pending, up, opsSeen, cleared, observables>>

Subscribe(s) ==
    /\ Idle
    /\ s \notin Registered
    /\ \E q \in FlatOrders(GetCurrentState) :
          log' = [log EXCEPT ![s] = @ \o CatchUp(q)]
    /\ Registration(s, "subscribe")
    /\ ret' = Ok
    /\ CalledWith("subscribe", s, Returned)
    /\ UNCHANGED <<lock, pc, bare, data, faulty, protocol, pending, up, opsSeen, cleared, observables>>

\* The sinks registered under handle h: one, or none.
SinkOf(h) ==
    {observers[i].sink : i \in {j \in 1..Len(observers) : observers[j].handle = h}}

Unregistration(h) ==
    /\ observers' = Remove(h)
    /\ joined' = joined \ SinkOf(h)

\* Mutant of Unsubscribe: the sink is returned and stays registered.
UnsubscribeLeavesSink(h) ==
    /\ Idle
    /\ ret' = IF h \in Handles THEN Some(CHOOSE s \in SinkOf(h) : TRUE) ELSE None
    /\ CalledWith("unsubscribe", "none", h)
    /\ UNCHANGED <<lock, pc, bare, issued, data, observers, joined, nextHandle, log, faulty, protocol,
                   pending, up, opsSeen, cleared, mode, seenAt, snapAt, mark,
                   observables>>

Unsubscribe(h) ==
    /\ Idle
    /\ Unregistration(h)
    /\ ret' = IF h \in Handles THEN Some(CHOOSE s \in SinkOf(h) : TRUE) ELSE None
    /\ CalledWith("unsubscribe", "none", h)
    /\ UNCHANGED <<lock, pc, bare, issued, data, nextHandle, log, faulty, protocol, pending, up, opsSeen, cleared,
                   mode, seenAt, snapAt, mark, observables>>

--------------------------------------------------------------------------
(* UpdatesObservable: subscribe and unsubscribe on the shared distributor *)

BareSubscribe(s) ==
    /\ Budget
    /\ observables > 0
    /\ s \notin Registered
    /\ Registration(s, "bare")
    /\ CalledWith("bare_subscribe", s, Returned)
    /\ UNCHANGED <<lock, pc, bare, data, log, faulty, protocol, pending, ret, up, opsSeen, cleared,
                   observables>>

BareUnsubscribe(h) ==
    /\ Budget
    /\ observables > 0
    /\ Unregistration(h)
    /\ CalledWith("bare_unsubscribe", "none", h)
    /\ UNCHANGED <<lock, pc, bare, issued, data, nextHandle, log, faulty, protocol, pending, ret, up, opsSeen,
                   cleared, mode, seenAt, snapAt, mark, observables>>

--------------------------------------------------------------------------
(* Accumulator: the Observer trait *)

\* Mutant of OnStart: the result of the observer is dropped.
OnStartSwallowsError ==
    /\ Idle
    /\ log' = Deliver(log, <<Start>>)
    /\ ret' = Ok
    /\ Upstream("on_start")
    /\ joined' = {}
    /\ Called("on_start", "none")
    /\ UNCHANGED <<lock, pc, bare, issued, data, observers, nextHandle, faulty, protocol, pending,
                   opsSeen, cleared, mode, seenAt, snapAt, mark, observables>>

OnStart ==
    /\ Idle
    /\ log' = Deliver(log, <<Start>>)
    /\ ret' = Forwarded
    /\ Upstream("on_start")
    /\ joined' = {}
    /\ Called("on_start", "none")
    /\ UNCHANGED <<lock, pc, bare, issued, data, observers, nextHandle, faulty, protocol, pending, opsSeen,
                   cleared, mode, seenAt, snapAt, mark, observables>>

\* Mutant of OnCommit: the sinks that returned an error are unregistered.
OnCommitDropsFailing ==
    /\ Idle
    /\ log' = Deliver(log, <<Commit>>)
    /\ ret' = Forwarded
    /\ observers' = SelectSeq(observers, LAMBDA e : e.sink \notin faulty)
    /\ Upstream("on_commit")
    /\ joined' = {}
    /\ Called("on_commit", "none")
    /\ UNCHANGED <<lock, pc, bare, issued, data, nextHandle, faulty, protocol, pending, opsSeen,
                   cleared, mode, seenAt, snapAt, mark, observables>>

OnCommit ==
    /\ Idle
    /\ log' = Deliver(log, <<Commit>>)
    /\ ret' = Forwarded
    /\ Upstream("on_commit")
    /\ joined' = {}
    /\ Called("on_commit", "none")
    /\ UNCHANGED <<lock, pc, bare, issued, data, observers, nextHandle, faulty, protocol, pending, opsSeen,
                   cleared, mode, seenAt, snapAt, mark, observables>>

\* Mutant of OnUpdates: the batch goes to the distributor directly and is
\* not accumulated.
OnUpdatesBypassesObserver(b) ==
    /\ Idle
    /\ data' = data
    /\ pending' = b
    /\ opsSeen' = opsSeen \o b
    /\ Upstream("on_updates")
    /\ Called("on_updates", "none")
    /\ UNCHANGED <<lock, pc, bare, issued, observers, nextHandle, log, faulty, protocol, ret, joined,
                   cleared, mode, seenAt, snapAt, mark, observables>>

\* Mutant of OnUpdates: the first update of the iterator is consumed before
\* the batch is forwarded.
OnUpdatesPeeked(b) ==
    /\ Idle
    /\ data' = ApplyAll(data, b)
    /\ pending' = IF b = << >> THEN b ELSE Tail(b)
    /\ opsSeen' = opsSeen \o b
    /\ Upstream("on_updates")
    /\ Called("on_updates", "none")
    /\ UNCHANGED <<lock, pc, bare, issued, observers, nextHandle, log, faulty, protocol, ret, joined,
                   cleared, mode, seenAt, snapAt, mark, observables>>

\* Mutant of OnUpdates: a batch that starts with the deletion of an absent
\* value or the insertion of a present one empties the relation it names.
OnUpdatesResetsRelation(b) ==
    /\ Idle
    /\ data' = IF /\ b # << >>
                  /\ (Head(b).op = "Insert") = (Head(b).v \in data[Head(b).relid])
               THEN [ApplyAll(data, b) EXCEPT ![Head(b).relid] = {}]
               ELSE ApplyAll(data, b)
    /\ pending' = b
    /\ opsSeen' = opsSeen \o b
    /\ Upstream("on_updates")
    /\ Called("on_updates", "none")
    /\ UNCHANGED <<lock, pc, bare, issued, observers, nextHandle, log, faulty, protocol, ret, joined,
                   cleared, mode, seenAt, snapAt, mark, observables>>

\* Mutant of OnUpdates: only the first update of the batch is applied at once.
OnUpdatesAppliesFirstOnly(b) ==
    /\ Idle
    /\ data' = IF b = << >> THEN data ELSE Apply(data, Head(b))
    /\ pending' = b
    /\ opsSeen' = opsSeen \o b
    /\ Upstream("on_updates")
    /\ Called("on_updates", "none")
    /\ UNCHANGED <<lock, pc, bare, issued, observers, nextHandle, log, faulty, protocol, ret, joined,
                   cleared, mode, seenAt, snapAt, mark, observables>>

\* on_updates, first half: the AccumulatingObserver applies the batch.
OnUpdates(b) ==
    /\ Idle
    /\ data' = ApplyAll(data, b)
    /\ pending' = b
    /\ opsSeen' = opsSeen \o b
    /\ Upstream("on_updates")
    /\ Called("on_updates", "none")
    /\ UNCHANGED <<lock, pc, bare, issued, observers, nextHandle, log, faulty, protocol, ret, joined, cleared,
                   mode, seenAt, snapAt, mark, observables>>

\* Mutant of OnUpdatesForward: the batch is kept from the sinks registered
\* since the transaction was started.
OnUpdatesForwardSkipsJoined ==
    /\ pending # NoBatch
    /\ log' = [s \in Sinks |->
                 IF s \in Registered \ joined
                 THEN log[s] \o <<Updates(pending)>>
                 ELSE log[s]]
    /\ ret' = Forwarded
    /\ pending' = NoBatch
    /\ last' = [op |-> "on_updates_forward", sink |-> "none", handle |-> 0]
    /\ UNCHANGED <<lock, pc, bare, issued, data, observers, nextHandle, faulty, protocol, up, joined,
                   opsSeen, cleared, mode, seenAt, snapAt, mark, observables, nCalls>>

\* on_updates, second half: the batch goes to the distributor, under its lock.
OnUpdatesForward ==
    /\ pending # NoBatch
    /\ log' = Deliver(log, <<Updates(pending)>>)
    /\ ret' = Forwarded
    /\ pending' = NoBatch
    /\ last' = [op |-> "on_updates_forward", sink |-> "none", handle |-> 0]
    /\ UNCHANGED <<lock, pc, bare, issued, data, observers, nextHandle, faulty, protocol, up, joined, opsSeen,
                   cleared, mode, seenAt, snapAt, mark, observables, nCalls>>

\* Mutant of TearDown: on_completed reaches the distributor a second time,
\* through the AccumulatingObserver.
TearDownCompletedTwice(q) ==
    <<Completed>> \o
    (IF q = << >> THEN << >>
     ELSE <<Start, Updates(DeleteUpdates(q)), Commit>>) \o
    <<Completed>>

\* Mutant of TearDown: on_completed is delivered without the deletion transaction.
TearDownOnlyCompleted(q) == <<Completed>>

\* What on_completed sends to the distributor: on_completed first, then the
\* deletion transaction when delete_updates is not empty.
TearDown(q) ==
    <<Completed>> \o
    (IF q = << >> THEN << >>
     ELSE <<Start, Updates(DeleteUpdates(q)), Commit>>)

\* AccumulatingObserver::on_completed: the accumulated data is dropped.
AccumulatingObserverOnCompleted == EmptyData

\* Mutant of OnCompleted: the AccumulatingObserver's on_completed is not called.
OnCompletedWithoutObserver ==
    /\ Idle
    /\ \E q \in FlatOrders(GetCurrentState) :
          log' = Deliver(log, TearDown(q))
    /\ data' = data
    /\ ret' = Ok
    /\ cleared' = Len(opsSeen)
    /\ Upstream("on_completed")
    /\ joined' = {}
    /\ Called("on_completed", "none")
    /\ UNCHANGED <<lock, pc, bare, issued, observers, nextHandle, faulty, protocol, pending, opsSeen,
                   mode, seenAt, snapAt, mark, observables>>

\* Mutant of OnCompleted: the tear-down stops at the first failing sink and
\* its error is returned.
OnCompletedStopsAtError ==
    /\ Idle
    /\ \E q \in FlatOrders(GetCurrentState) :
          log' = [s \in Sinks |->
                    IF \E i \in 1..Len(observers) :
                          /\ observers[i].sink = s
                          /\ \A j \in 1..Len(observers) :
                                observers[j].sink \in faulty => i <= j
                    THEN log[s] \o TearDown(q)
                    ELSE log[s]]
    /\ data' = AccumulatingObserverOnCompleted
    /\ ret' = Forwarded
    /\ cleared' = Len(opsSeen)
    /\ Upstream("on_completed")
    /\ joined' = {}
    /\ Called("on_completed", "none")
    /\ UNCHANGED <<lock, pc, bare, issued, observers, nextHandle, faulty, protocol, pending, opsSeen,
                   mode, seenAt, snapAt, mark, observables>>

OnCompleted ==
    /\ Idle
    /\ \E q \in FlatOrders(GetCurrentState) :
          log' = Deliver(log, TearDown(q))
    /\ data' = AccumulatingObserverOnCompleted
    /\ ret' = Ok
    /\ cleared' = Len(opsSeen)
    /\ Upstream("on_completed")
    /\ joined' = {}
    /\ Called("on_completed", "none")
    /\ UNCHANGED <<lock, pc, bare, issued, observers, nextHandle, faulty, protocol, pending, opsSeen, mode,
                   seenAt, snapAt, mark, observables>>

--------------------------------------------------------------------------
Next ==
    \/ CreateObservable
    \/ \E s \in Sinks : Subscribe(s)
    \/ \E h \in 0..nextHandle : Unsubscribe(h)
    \/ \E s \in Sinks : BareSubscribe(s)
    \/ \E h \in 0..nextHandle : BareUnsubscribe(h)
    \/ OnStart
    \/ OnCommit
    \/ \E b \in Batches : OnUpdates(b)
    \/ OnUpdatesForward
    \/ OnCompleted

Spec == Init /\ [][Next]_vars

SpecAnyOrder == InitAnyOrder /\ [][Next]_vars

--------------------------------------------------------------------------
(* subscribe and on_completed, step by step: the call is made, the
   distributor lock is taken (the thread waits while another holds it), the
   body runs, and the guard is dropped at the return.  The subscribe of the
   bare observable, made from another thread, is a critical section on the
   same lock. *)

LiveBudget == nCalls < MaxLiveCalls

\* The batches handed to on_updates here: one that fills the state, one that
\* empties it.
LiveBatches == { << Insert(1, 2), Insert(2, 1) >>, << DeleteValue(1, 2), DeleteValue(2, 1) >> }

\* The accumulator's thread is in no call and may make one.
MayCall == pc = NotInCall /\ pending = NoBatch /\ LiveBudget

\* subscribe is called.
SubscribeCall(s) ==
    /\ MayCall
    /\ s \notin Registered
    /\ bare.sink # s
    /\ pc' = [at |-> "subscribe", sink |-> s]
    /\ CalledWith("subscribe_call", s, 0)
    /\ UNCHANGED <<data, observers, nextHandle, log, faulty, pending, ret, protocol,
                   up, joined, opsSeen, cleared, mode, seenAt, snapAt, mark,
                   observables, issued, lock, bare>>

\* subscribe: self.distributor.lock()
SubscribeLock ==
    /\ pc.at = "subscribe"
    /\ lock = "free"
    /\ lock' = "accumulator"
    /\ pc' = [pc EXCEPT !.at = "subscribe_locked"]
    /\ last' = [op |-> "subscribe_lock", sink |-> pc.sink, handle |-> 0]
    /\ UNCHANGED <<data, observers, nextHandle, log, faulty, pending, ret, protocol,
                   up, joined, opsSeen, cleared, mode, seenAt, snapAt, mark,
                   observables, issued, bare, nCalls>>

\* subscribe: the catch-up, the registration, and the return, which drops the guard.
SubscribeReturn ==
    /\ pc.at = "subscribe_locked"
    /\ \E q \in FlatOrders(GetCurrentState) :
          log' = [log EXCEPT ![pc.sink] = @ \o CatchUp(q)]
    /\ Registration(pc.sink, "subscribe")
    /\ ret' = Ok
    /\ last' = [op |-> "subscribe", sink |-> pc.sink, handle |-> Returned]
    /\ lock' = "free"
    /\ pc' = NotInCall
    /\ UNCHANGED <<data, faulty, pending, protocol, up, opsSeen, cleared, observables,
                   bare, nCalls>>

\* The bare observable's subscribe is called from another thread and takes the lock.
BareSubscribeLock(s) ==
    /\ bare = NotInCall
    /\ LiveBudget
    /\ observables > 0
    /\ lock = "free"
    /\ s \notin Registered
    /\ pc.sink # s
    /\ lock' = "observable"
    /\ bare' = [at |-> "subscribe_locked", sink |-> s]
    /\ CalledWith("bare_subscribe_lock", s, 0)
    /\ UNCHANGED <<data, observers, nextHandle, log, faulty, pending, ret, protocol,
                   up, joined, opsSeen, cleared, mode, seenAt, snapAt, mark,
                   observables, issued, pc>>

\* The bare observable's subscribe registers the sink and returns.
BareSubscribeReturn ==
    /\ bare.at = "subscribe_locked"
    /\ Registration(bare.sink, "bare")
    /\ last' = [op |-> "bare_subscribe", sink |-> bare.sink, handle |-> Returned]
    /\ lock' = "free"
    /\ bare' = NotInCall
    /\ UNCHANGED <<data, log, faulty, pending, ret, protocol, up, opsSeen, cleared,
                   observables, pc, nCalls>>

\* on_completed is called.
OnCompletedCall ==
    /\ MayCall
    /\ Upstream("on_completed")
    /\ pc' = [at |-> "on_completed", sink |-> "none"]
    /\ Called("on_completed_call", "none")
    /\ UNCHANGED <<data, observers, nextHandle, log, faulty, pending, ret, protocol,
                   joined, opsSeen, cleared, mode, seenAt, snapAt, mark,
                   observables, issued, lock, bare>>

\* on_completed: self.distributor.lock(), then the calls made on the guard.
OnCompletedLock ==
    /\ pc.at = "on_completed"
    /\ lock = "free"
    /\ lock' = "accumulator"
    /\ \E q \in FlatOrders(GetCurrentState) :
          log' = Deliver(log, TearDown(q))
    /\ joined' = {}
    /\ pc' = [pc EXCEPT !.at = "on_completed_locked"]
    /\ last' = [op |-> "on_completed_lock", sink |-> "none", handle |-> 0]
    /\ UNCHANGED <<data, observers, nextHandle, faulty, pending, ret, protocol, up,
                   opsSeen, cleared, mode, seenAt, snapAt, mark, observables,
                   issued, bare, nCalls>>

\* Mutant of OnCompletedReturn: the AccumulatingObserver forwards on_completed
\* to the shared distributor, which takes the lock for it.
OnCompletedReturnRelocks ==
    /\ pc.at = "on_completed_locked"
    /\ lock = "free"
    /\ log' = Deliver(log, <<Completed>>)
    /\ data' = AccumulatingObserverOnCompleted
    /\ cleared' = Len(opsSeen)
    /\ ret' = Forwarded
    /\ last' = [op |-> "on_completed", sink |-> "none", handle |-> 0]
    /\ pc' = NotInCall
    /\ UNCHANGED <<observers, nextHandle, faulty, pending, protocol, up, joined,
                   opsSeen, mode, seenAt, snapAt, mark, observables, issued, lock,
                   bare, nCalls>>

\* on_completed: self.observer.on_completed(), and the return, which drops the guard.
OnCompletedReturn ==
    /\ pc.at = "on_completed_locked"
    /\ data' = AccumulatingObserverOnCompleted
    /\ cleared' = Len(opsSeen)
    /\ ret' = Ok
    /\ last' = [op |-> "on_completed", sink |-> "none", handle |-> 0]
    /\ lock' = "free"
    /\ pc' = NotInCall
    /\ UNCHANGED <<observers, nextHandle, log, faulty, pending, protocol, up, joined,
                   opsSeen, mode, seenAt, snapAt, mark, observables, issued, bare,
                   nCalls>>

\* The other calls take the lock and release it within one step (on_updates
\* takes it for its forwarding only); they wait while another thread holds it.
NextLive ==
    \/ pc = NotInCall /\ lock = "free" /\ CreateObservable
    \/ \E s \in Sinks : SubscribeCall(s)
    \/ SubscribeLock
    \/ SubscribeReturn
    \/ \E s \in Sinks : BareSubscribeLock(s)
    \/ BareSubscribeReturn
    \/ MayCall /\ lock = "free" /\ \E h \in 0..nextHandle : Unsubscribe(h)
    \/ MayCall /\ lock = "free" /\ OnStart
    \/ MayCall /\ lock = "free" /\ OnCommit
    \/ MayCall /\ \E b \in LiveBatches : OnUpdates(b)
    \/ lock = "free" /\ OnUpdatesForward
    \/ OnCompletedCall
    \/ OnCompletedLock
    \/ OnCompletedReturn

\* A thread that can take a step takes it: the thread of the accumulator in
\* subscribe and on_completed, the other thread while it holds the lock.
Fairness ==
    /\ WF_vars(SubscribeLock)
    /\ WF_vars(SubscribeReturn)
    /\ WF_vars(OnCompletedLock)
    /\ WF_vars(OnCompletedReturn)
    /\ WF_vars(BareSubscribeReturn)

\* Neither sink fails, or mock1 does; the upstream calls come in any order.
InitLive == InitAnyOrder /\ faulty \in {{}, {"mock1"}}

SpecLive == InitLive /\ [][NextLive]_vars /\ Fairness

--------------------------------------------------------------------------
(* Vocabulary of the properties *)

\* What a step appends to the log of sink s.
Appended(s) == SubSeq(log'[s], Len(log[s]) + 1, Len(log'[s]))

\* What sink s has received since its last registration began.
Segment(s) == SubSeq(log[s], mark[s] + 1, Len(log[s]))

Range(q) == {q[i] : i \in 1..Len(q)}

\* The updates of a sequence of calls, concatenated.
RECURSIVE FlattenUpdates(_)
FlattenUpdates(cs) ==
    IF cs = << >> THEN << >> ELSE Head(cs).updates \o FlattenUpdates(Tail(cs))

\* The fold of a sequence of updates from the empty state, stated pointwise:
\* v is in relation r iff some Insert(r, v) is followed by no DeleteValue(r, v).
LastWins(ops) ==
    [r \in RelIds |->
        {v \in Values :
            \E i \in 1..Len(ops) :
                /\ ops[i] = Insert(r, v)
                /\ \A j \in (i + 1)..Len(ops) : ops[j] # DeleteValue(r, v)}]

PendingLen == IF pending = NoBatch THEN 0 ELSE Len(pending)

\* The indices of the registered sinks that fail.
Failing == {i \in 1..Len(observers) : observers[i].sink \in faulty}

--------------------------------------------------------------------------
(* C1: when the accumulated state S is not empty, subscribe appends to the
   new sink's log exactly on_start, one on_updates with exactly one Insert
   per pair of S (any order), on_commit; every later on_updates the sink
   receives is either a batch applied upstream after its subscription or
   the deletion batch of on_completed, never a replay of earlier state. *)
C1_CatchUpExact ==
    [][\A s \in Sinks :
        LET a == Appended(s)
        IN  IF last'.op = "subscribe" /\ last'.sink = s
            THEN IF Pairs(data) = {} THEN a = << >>
                 ELSE /\ Len(a) = 3
                      /\ a[1] = Start
                      /\ a[2].call = "on_updates"
                      /\ Len(a[2].updates) = Cardinality(Pairs(data))
                      /\ Range(a[2].updates) =
                            {Insert(p[1], p[2]) : p \in Pairs(data)}
                      /\ a[3] = Commit
            ELSE (mode[s] = "subscribe" /\ s \in Registered) =>
                 \A i \in 1..Len(a) :
                    a[i].call = "on_updates" =>
                       \/ /\ last'.op = "on_updates_forward"
                          /\ a[i].updates = pending
                          /\ seenAt[s] + Len(pending) <= Len(opsSeen)
                          /\ pending = SubSeq(opsSeen,
                                              Len(opsSeen) - Len(pending) + 1,
                                              Len(opsSeen))
                       \/ /\ last'.op = "on_completed"
                          /\ \A k \in 1..Len(a[i].updates) :
                                a[i].updates[k].op = "DeleteValue"]_vars

\* C1 witness: a sink caught up with two pairs or more has then received a later call.
C1_Witness ==
    \E s \in Registered :
        /\ mode[s] = "subscribe"
        /\ Cardinality(Pairs(snapAt[s])) >= 2
        /\ Len(Segment(s)) > 3

(* C2: after on_completed, the last call every registered subscriber has
   received is on_completed: the Complete notification comes after the
   deletion transaction, never before it. *)
C2_DeleteThenComplete ==
    last.op = "on_completed" =>
        \A s \in Registered :
            /\ log[s] # << >>
            /\ log[s][Len(log[s])] = Completed

(* C3: one call of on_completed delivers exactly one on_completed to every
   sink registered at that time, and none to any other sink. *)
C3_ExactlyOneCompleted ==
    [][last'.op = "on_completed" =>
        \A s \in Sinks :
            Cardinality({i \in 1..Len(Appended(s)) : Appended(s)[i] = Completed})
                = IF s \in Registered THEN 1 ELSE 0]_vars

\* C3 witness: on_completed on a non-empty state with one sink registered by
\* subscribe and one through the bare observable.
C3_Witness ==
    /\ last.op = "on_completed"
    /\ \E s, t \in Registered : mode[s] = "subscribe" /\ mode[t] = "bare"
    /\ \A s \in Registered : \E c \in Range(log[s]) :
          c.call = "on_updates" /\ c.updates # << >>

(* C4: when on_completed has returned, get_current_state is empty. *)
C4_EmptyAfterCompleted ==
    last.op = "on_completed" => \A r \in RelIds : GetCurrentState[r] = {}

\* C4 witness: on_completed returned after it deleted a state of two pairs or more.
C4_Witness ==
    /\ last.op = "on_completed"
    /\ \E s \in Registered :
          /\ log[s] # << >>
          /\ log[s][Len(log[s])].call = "on_commit"
          /\ Len(log[s][Len(log[s]) - 1].updates) >= 2

(* C5: get_current_state is the fold of every update passed to on_updates
   since the state was last cleared, in delivery order, whatever the batches
   and transactions they came in. *)
C5_SnapshotIsFold ==
    GetCurrentState = LastWins(SubSeq(opsSeen, cleared + 1, Len(opsSeen)))

\* C5 witness: a committed transaction of two batches, with an insert undone.
C5_Witness ==
    /\ last.op = "on_commit"
    /\ up = "idle"
    /\ cleared = 0
    /\ Len(opsSeen) >= 4
    /\ data[1] # {}
    /\ data[2] = {}
    /\ Insert(2, 1) \in Range(opsSeen)

(* C6: a sink subscribed through the bare observable while the accumulated
   state is not empty receives no updates until a transaction is started
   after its registration: every on_updates it receives comes after an
   on_start it has received. *)
C6_BareSeesOnlyLaterTransactions ==
    \A s \in Registered :
        (mode[s] = "bare" /\ Pairs(snapAt[s]) # {}) =>
            \A i \in 1..Len(Segment(s)) :
                Segment(s)[i].call = "on_updates" =>
                    \E j \in 1..(i - 1) : Segment(s)[j].call = "on_start"

(* C7: at every step any two sinks registered before it receive the same
   calls, and the batch on_updates forwards is the batch it applied to the
   accumulated state. *)
C7_FanOutIdentical ==
    [][/\ \A s, t \in Registered : Appended(s) = Appended(t)
       /\ last'.op = "on_updates" =>
             /\ data' = ApplyAll(data, pending')
             /\ opsSeen' = opsSeen \o pending'
       /\ last'.op = "on_updates_forward" =>
             \A s \in Registered : Appended(s) = <<Updates(pending)>>]_vars

\* C7 witness: a non-empty batch forwarded to a subscribe sink and a bare sink.
C7_Witness ==
    /\ last.op = "on_updates_forward"
    /\ \E s, t \in Registered :
          /\ mode[s] = "subscribe"
          /\ mode[t] = "bare"
          /\ log[s] # << >>
          /\ log[s][Len(log[s])].updates # << >>
          /\ log[t] = log[s]

(* C8: a sink registered while an upstream transaction is open receives no
   on_updates and no on_commit of that transaction (its on_start was
   delivered before the sink was registered, so it cannot receive all). *)
C8_AllOrNothing ==
    [][(last'.op \in {"on_updates_forward", "on_commit"} /\ up = "open") =>
        \A s \in joined : Appended(s) = << >>]_vars

(* C9: for a sink registered by subscribe, the updates it has received
   since are the inserts of the snapshot read by subscribe followed by
   exactly the updates applied upstream after that read, each once. *)
C9_ExactlyOnce ==
    \A s \in Registered :
        (mode[s] = "subscribe" /\ Completed \notin Range(Segment(s))) =>
            \E q \in FlatOrders(snapAt[s]) :
                FlattenUpdates(Segment(s)) =
                    InitUpdates(q) \o
                    SubSeq(opsSeen, seenAt[s] + 1, Len(opsSeen) - PendingLen)

\* C9 witness: a sink caught up on a non-empty state has received a later batch.
C9_Witness ==
    \E s \in Registered :
        /\ mode[s] = "subscribe"
        /\ Pairs(snapAt[s]) # {}
        /\ pending = NoBatch
        /\ Len(opsSeen) > seenAt[s]
        /\ Completed \notin Range(Segment(s))

(* C10: on_start, on_updates and on_commit deliver the call to every
   registered sink, failing or not, and return the error of the first
   failing sink in registration order (Ok when none fails). *)
C10_FirstErrorNoShortCircuit ==
    [][last'.op \in {"on_start", "on_commit", "on_updates_forward"} =>
        /\ \A s \in Registered :
              Appended(s) = << CASE last'.op = "on_start" -> Start
                                 [] last'.op = "on_commit" -> Commit
                                 [] OTHER -> Updates(pending) >>
        /\ IF Failing = {} THEN ret' = Ok
           ELSE \E i \in Failing :
                   /\ \A j \in Failing : i <= j
                   /\ ret' = Err(observers[i].sink)]_vars

\* C10 witness: both sinks fail, mock2 registered first; on_start reached both
\* and returned mock2's error.
C10_Witness ==
    /\ last.op = "on_start"
    /\ faulty = Sinks
    /\ Len(observers) = 2
    /\ observers[1].sink = "mock2"
    /\ ret = Err("mock2")
    /\ \A s \in Sinks : log[s] # << >> /\ log[s][Len(log[s])] = Start

(* C11: a subscribe whose new sink fails in its handlers still makes all
   three catch-up calls to it (none when the state is empty), registers it
   last in the registry under the handle it returns, and returns Ok. *)
C11_CatchUpErrorsSwallowed ==
    [][(last'.op = "subscribe" /\ last'.sink \in faulty) =>
        /\ \E q \in FlatOrders(data) : Appended(last'.sink) = CatchUp(q)
        /\ Pairs(data) # {} => Len(Appended(last'.sink)) = 3
        /\ observers' =
              Append(observers, [handle |-> last'.handle, sink |-> last'.sink])
        /\ ret' = Ok]_vars

\* C11 witness: a failing sink was subscribed on a non-empty state.
C11_Witness ==
    /\ last.op = "subscribe"
    /\ last.sink \in faulty
    /\ Pairs(data) # {}
    /\ Len(Segment(last.sink)) = 3
    /\ last.sink \in Registered
    /\ ret = Ok

\* The calls cs contain the deletion transaction of state d: on_start, one
\* on_updates with exactly one DeleteValue per pair of d, on_commit, adjacent.
HasDeletionTransaction(cs, d) ==
    \E i \in 1..Len(cs) :
        /\ i + 2 <= Len(cs)
        /\ cs[i] = Start
        /\ cs[i + 1].call = "on_updates"
        /\ Len(cs[i + 1].updates) = Cardinality(Pairs(d))
        /\ Range(cs[i + 1].updates) = {DeleteValue(p[1], p[2]) : p \in Pairs(d)}
        /\ cs[i + 2] = Commit

(* C12: when a registered sink fails in its handlers, on_completed still
   delivers to every registered sink the whole deletion transaction (when
   the state is not empty) and an on_completed, empties the state, and
   returns Ok, not the sink's error. *)
C12_TearDownErrorsSwallowed ==
    [][(last'.op = "on_completed" /\ Failing # {}) =>
        /\ \A s \in Registered :
              /\ Completed \in Range(Appended(s))
              /\ Pairs(data) # {} => HasDeletionTransaction(Appended(s), data)
        /\ data' = EmptyData
        /\ ret' = Ok]_vars

\* C12 witness: on_completed on a non-empty state, a failing sink registered
\* first, a sound sink after it that has received the deletion transaction.
C12_Witness ==
    /\ last.op = "on_completed"
    /\ Len(observers) = 2
    /\ observers[1].sink \in faulty
    /\ observers[2].sink \notin faulty
    /\ Len(log[observers[2].sink]) >= 4
    /\ log[observers[2].sink][Len(log[observers[2].sink])] = Commit
    /\ log[observers[2].sink][Len(log[observers[2].sink]) - 1].updates # << >>
    /\ ret = Ok

(* C13: unsubscribe(h) with h registered returns Some(the sink registered
   under h) and removes exactly that entry, keeping the others in order;
   with h not registered it returns None and changes neither the registry,
   nor the logs, nor the state.  A handle that has been issued and is no
   longer registered never becomes registered again, so every unsubscribe
   repeated on it is of the second kind. *)
C13_UnsubscribeIdempotent ==
    [][/\ last'.op = "unsubscribe" =>
             IF last'.handle \in Handles
             THEN \E i \in 1..Len(observers) :
                     /\ observers[i].handle = last'.handle
                     /\ ret' = Some(observers[i].sink)
                     /\ observers' = SubSeq(observers, 1, i - 1) \o
                                     SubSeq(observers, i + 1, Len(observers))
                     /\ last'.handle \notin Handles'
             ELSE /\ ret' = None
                  /\ observers' = observers
                  /\ log' = log
                  /\ data' = data
                  /\ nextHandle' = nextHandle
       /\ \A h \in issued : h \notin Handles => h \notin Handles']_vars

\* C13 witness: an unsubscribe repeated on a handle that was issued and
\* removed before has returned None, another sink being registered.
C13_Witness ==
    /\ last.op = "unsubscribe"
    /\ last.handle \in issued
    /\ last.handle \notin Handles
    /\ ret = None
    /\ observers # << >>

(* C14: the handle returned by a subscription, through subscribe or through
   the bare observable, is the handle the new sink is registered under and
   was never returned before, whether the earlier subscriptions are still
   registered or not. *)
C14_HandlesNeverReused ==
    [][last'.op \in {"subscribe", "bare_subscribe"} =>
        /\ last'.handle \notin issued
        /\ issued' = issued \cup {last'.handle}
        /\ observers'[Len(observers')] =
              [handle |-> last'.handle, sink |-> last'.sink]
        /\ \A i, j \in 1..Len(observers') :
              observers'[i].handle = observers'[j].handle => i = j]_vars

\* C14 witness: a subscription through the bare observable, the third at
\* least, made after an earlier subscription was removed.
C14_Witness ==
    /\ last.op = "bare_subscribe"
    /\ Cardinality(issued) >= 3
    /\ \E h \in issued : h \notin Handles
    /\ \E s \in Registered : mode[s] = "subscribe"

\* Update u changes nothing in state d: it deletes a value that is absent
\* or inserts one that is present.
Redundant(d, u) ==
    \/ u.op = "DeleteValue" /\ u.v \notin d[u.relid]
    \/ u.op = "Insert" /\ u.v \in d[u.relid]

(* C15: an on_updates whose updates each delete a value absent from its
   relation or insert a value present in it leaves get_current_state as it
   was, and the call returns Ok when no registered sink fails. *)
C15_RedundantUpdatesNoOp ==
    [][/\ (/\ last'.op = "on_updates"
           /\ \A i \in 1..Len(pending') : Redundant(data, pending'[i]))
          => GetCurrentState' = GetCurrentState
       /\ (last'.op = "on_updates_forward" /\ Failing = {}) => ret' = Ok]_vars

\* C15 witness: on_updates([DeleteValue{1,1}]) has returned Ok, (1,1) was never
\* inserted, the state is not empty and a sink has received the batch.
C15_Witness ==
    /\ last.op = "on_updates_forward"
    /\ ret = Ok
    /\ opsSeen # << >>
    /\ opsSeen[Len(opsSeen)] = DeleteValue(1, 1)
    /\ Insert(1, 1) \notin Range(opsSeen)
    /\ data # EmptyData
    /\ \E s \in Registered :
          log[s][Len(log[s])] = Updates(<<DeleteValue(1, 1)>>)

(* C16: when the accumulated state holds no value, subscribe delivers no
   call to the new sink and registers it, and on_completed delivers to each
   registered sink one on_completed and nothing else. *)
C16_EmptyStateNoTransaction ==
    [][Pairs(GetCurrentState) = {} =>
        /\ last'.op = "subscribe" =>
              /\ Appended(last'.sink) = << >>
              /\ last'.sink \in Registered'
        /\ last'.op = "on_completed" =>
              \A s \in Sinks :
                 Appended(s) = IF s \in Registered THEN <<Completed>> ELSE << >>]_vars

\* C16 witness: the state was filled and emptied again; a sink subscribed
\* after that has received nothing but the on_completed.
C16_Witness ==
    /\ last.op = "on_completed"
    /\ opsSeen # << >>
    /\ \E s \in Registered : mode[s] = "subscribe" /\ log[s] = <<Completed>>

\* The last update of batch b that names (r, v): 0 when there is none.
LastAbout(b, r, v) ==
    LET about == {i \in 1..Len(b) : b[i].relid = r /\ b[i].v = v}
    IN  IF about = {} THEN 0 ELSE CHOOSE i \in about : \A j \in about : j <= i

(* C17: on_updates changes get_current_state at once: after it, a value is
   in a relation iff the last update of the batch naming it is an Insert,
   or no update names it and it was there before.  on_start, on_commit and
   the forwarding leave the state unchanged, and a subscribe made while
   the transaction is open sends one Insert for each pair that the updates
   seen so far, committed or not, leave in the state. *)
C17_AppliedImmediately ==
    [][/\ last'.op = "on_updates" =>
             \A r \in RelIds, v \in Values :
                v \in GetCurrentState'[r] <=>
                   IF LastAbout(pending', r, v) = 0
                   THEN v \in GetCurrentState[r]
                   ELSE pending'[LastAbout(pending', r, v)].op = "Insert"
       /\ last'.op \in {"on_start", "on_commit", "on_updates_forward"} =>
             GetCurrentState' = GetCurrentState
       /\ (last'.op = "subscribe" /\ up = "open") =>
             Range(FlattenUpdates(Appended(last'.sink))) =
                {Insert(p[1], p[2]) :
                    p \in Pairs(LastWins(SubSeq(opsSeen, cleared + 1,
                                                Len(opsSeen))))}]_vars

\* C17 witness: on_start, on_updates, subscribe: the sink has received the
\* inserts of a transaction that is still open.
C17_Witness ==
    /\ last.op = "subscribe"
    /\ up = "open"
    /\ nCalls = 3
    /\ Cardinality(Pairs(GetCurrentState)) = 2
    /\ Len(log[last.sink]) = 3
    /\ Len(log[last.sink][2].updates) = 2

(* C18: subscribe, the subscribe and unsubscribe of the bare observable,
   unsubscribe and create_observable leave get_current_state unchanged and
   append nothing to the log of any sink, except that subscribe appends its
   catch-up to the log of the sink it is given. *)
C18_SubscriptionFrame ==
    [][last'.op \in {"subscribe", "bare_subscribe", "unsubscribe",
                     "bare_unsubscribe", "create_observable"} =>
        /\ GetCurrentState' = GetCurrentState
        /\ \A s \in Sinks :
              (last'.op = "subscribe" /\ last'.sink = s) \/ Appended(s) = << >>]_vars

\* C18 witness: a second sink was subscribed on a non-empty state inside an
\* open transaction; the first sink's last call is still the on_updates.
C18_Witness ==
    /\ last.op = "subscribe"
    /\ Len(observers) = 2
    /\ observers[2].sink = last.sink
    /\ Len(Segment(last.sink)) = 3
    /\ log[observers[1].sink] # << >>
    /\ log[observers[1].sink][Len(log[observers[1].sink])].call = "on_updates"

(* C19: the registry changes only by a subscription, which adds the new
   sink under its handle at the end and nothing else, and by an
   unsubscription, which removes the entry of the handle it names and
   nothing else; on_start, on_updates, on_commit, on_completed and
   create_observable leave it as it is, whether sinks fail or not. *)
C19_RegistryChanges ==
    [][observers' =
         CASE last'.op \in {"subscribe", "bare_subscribe"} ->
                 observers \o <<[handle |-> last'.handle, sink |-> last'.sink]>>
           [] last'.op \in {"unsubscribe", "bare_unsubscribe"} ->
                 SelectSeq(observers, LAMBDA e : e.handle # last'.handle)
           [] OTHER -> observers]_vars

\* C19 witness: a failing sink that went through a whole transaction and the
\* tear-down of on_completed is still registered.
C19_Witness ==
    /\ last.op = "on_completed"
    /\ \E s \in Registered \cap faulty :
          /\ Len(log[s]) >= 7
          /\ Completed \in Range(log[s])

\* The calls a forwarding step hands to the distributor, for one enumeration
\* order q of the state (which only on_completed uses).
ForwardedCalls(op, q) ==
    CASE op = "on_start" -> <<Start>>
      [] op = "on_commit" -> <<Commit>>
      [] op = "on_updates_forward" ->
            <<Updates(SubSeq(opsSeen, Len(opsSeen) - PendingLen + 1, Len(opsSeen)))>>
      [] OTHER -> <<Completed>> \o
                  (IF q = << >> THEN << >>
                   ELSE <<Start, Updates(DeleteUpdates(q)), Commit>>)

(* C20: a forwarding call of the distributor (made under its lock by
   on_start, on_commit, on_completed, and by on_updates once it has applied
   its batch) appends the same calls, the upstream batch unmodified, to the
   log of exactly the sinks registered when it begins, and leaves the
   registry as it is; a sink that is not registered is appended nothing by
   any step, except its catch-up by its own subscribe. *)
C20_DeliveredToRegisteredAtCall ==
    [][/\ last'.op \in {"on_start", "on_commit", "on_updates_forward", "on_completed"} =>
             /\ \E q \in FlatOrders(data) :
                   \A s \in Sinks :
                      Appended(s) = IF s \in Registered
                                    THEN ForwardedCalls(last'.op, q)
                                    ELSE << >>
             /\ observers' = observers
       /\ \A s \in Sinks \ Registered :
             Appended(s) = << >> \/ (last'.op = "subscribe" /\ last'.sink = s)]_vars

\* C20 witness: a sink registered through the bare observable after on_updates
\* had applied its batch and before the batch was forwarded has received
\* that batch and nothing before it, like the sink registered from the start;
\* a second forwarding call has reached both.
C20_Witness ==
    /\ last.op = "on_commit"
    /\ Len(observers) = 2
    /\ mode[observers[2].sink] = "bare"
    /\ seenAt[observers[2].sink] = Len(opsSeen)
    /\ Len(log[observers[2].sink]) = 2
    /\ log[observers[2].sink][1].call = "on_updates"
    /\ log[observers[2].sink][1].updates # << >>
    /\ Len(log[observers[1].sink]) = 3

(* C21: every call of subscribe and of on_completed returns, however the
   other thread uses the lock in between, and whenever the accumulator's
   thread is outside these calls or still waiting for the lock, it does
   not hold the lock. *)
C21_CallsReturn ==
    /\ (pc.at # "idle") ~> (pc.at = "idle")
    /\ [](pc.at \in {"idle", "subscribe", "on_completed"} => lock # "accumulator")

\* C21 witness: subscribe has returned, and after it on_completed, which took
\* the lock on a non-empty state and reached a sink registered from the other
\* thread; the lock is free.
C21_Witness ==
    /\ last.op = "on_completed"
    /\ pc = NotInCall
    /\ lock = "free"
    /\ \E s, t \in Registered :
          /\ mode[s] = "bare"
          /\ mode[t] = "subscribe"
          /\ Len(log[s]) >= 4
          /\ log[s][Len(log[s])] = Commit

\* The protocol position of a sink that was at position st and then received
\* the calls cs: (on_start on_updates* on_commit)* [on_completed], or "bad".
RECURSIVE After(_, _)
After(st, cs) ==
    IF cs = << >> THEN st
    ELSE After(CASE st = "idle" /\ Head(cs).call = "on_start" -> "open"
                 [] st = "open" /\ Head(cs).call = "on_updates" -> "open"
                 [] st = "open" /\ Head(cs).call = "on_commit" -> "idle"
                 [] st = "idle" /\ Head(cs).call = "on_completed" -> "done"
                 [] OTHER -> "bad",
               Tail(cs))

(* C22: when the upstream caller keeps to the protocol, the calls each
   registered sink has received since its registration began keep to it
   too: on_updates and on_commit only inside a transaction opened by an
   on_start, no on_start inside a transaction, nothing after on_completed. *)
C22_DownstreamWellFormed ==
    \A s \in Registered : After("idle", Segment(s)) # "bad"

\* The replica of sink s: the fold, from the empty state, of every update it
\* has received since its registration began.
Replica(s) == ApplyAll(EmptyData, FlattenUpdates(Segment(s)))

(* C23: whenever no upstream transaction is open and no call is in
   progress, the replica of every sink registered by subscribe equals
   get_current_state; after on_completed both are empty. *)
C23_ReplicaEqualsState ==
    (up # "open" /\ pending = NoBatch) =>
        \A s \in Registered :
            mode[s] = "subscribe" =>
                /\ Replica(s) = GetCurrentState
                /\ last.op = "on_completed" => Replica(s) = EmptyData

\* C23 witness: a sink caught up on a non-empty state has gone through
\* on_completed; the deletes it received have emptied its replica.
C23_Witness ==
    /\ last.op = "on_completed"
    /\ \E s \in Registered :
          /\ mode[s] = "subscribe"
          /\ Pairs(snapAt[s]) # {}
          /\ Completed \in Range(Segment(s))
          /\ Replica(s) = EmptyData

==========================================================================
